---- MODULE Spec2Model ----
(***************************************************************************)
(* SQL Server CRUD Viewer (app/main.py): the request handlers home,        *)
(* insert_row, update_row and delete_row, the helpers they call, and the   *)
(* database they talk to.                                                  *)
(*                                                                         *)
(* Text is a sequence of units.  A unit is a one-character string for      *)
(* every character that comes from outside the program (identifiers of     *)
(* the catalog, path parameters, form values) and a whole string literal   *)
(* for text the program itself writes ("INSERT INTO ", ", ", "?").         *)
(* Concatenation of text is \o.                                            *)
(***************************************************************************)
EXTENDS Integers, Sequences, FiniteSets, TLC

VARIABLES
    catalog,    \* the database's catalog: one schema, its base table, columns, key
    rowCount,   \* number of rows of the catalog's table
    req,        \* the request being served, if any
    resp,       \* how its handler ended: a response, or an exception raised
    calls       \* the database calls its handler made, in order

vars == <<catalog, rowCount, req, resp, calls>>

(***************************************************************************)
(* Bounds of the model.                                                    *)
(***************************************************************************)
MaxIdentLen == 4
MaxFields == 2
MaxRows == 1

(***************************************************************************)
(* Python values.                                                          *)
(***************************************************************************)
PyNone == [t |-> "None"]
PyStr(s) == [t |-> "str", s |-> s]
PyInt(n) == [t |-> "int", n |-> n]
PyBool(b) == [t |-> "bool", b |-> b]

Min(a, b) == IF a < b THEN a ELSE b

Digits == {"0", "1", "2", "3", "4", "5", "6", "7", "8", "9"}

DigitVal(c) ==
    CASE c = "0" -> 0 [] c = "1" -> 1 [] c = "2" -> 2 [] c = "3" -> 3
      [] c = "4" -> 4 [] c = "5" -> 5 [] c = "6" -> 6 [] c = "7" -> 7
      [] c = "8" -> 8 [] c = "9" -> 9

AllDigits(s) == \A i \in 1..Len(s) : s[i] \in Digits

RECURSIVE NatOf(_)
NatOf(s) ==
    IF s = <<>> THEN 0
    ELSE 10 * NatOf(SubSeq(s, 1, Len(s) - 1)) + DigitVal(s[Len(s)])

(***************************************************************************)
(* str.strip(), str.replace(), str.lower() over the model's characters     *)
(* (the only whitespace character of the model is " ", the upper-case      *)
(* letters are "T", "Y" and "N").                                          *)
(***************************************************************************)
RECURSIVE LStrip(_)
LStrip(s) == IF s # <<>> /\ Head(s) = " " THEN LStrip(Tail(s)) ELSE s

RECURSIVE RStrip(_)
RStrip(s) ==
    IF s # <<>> /\ s[Len(s)] = " " THEN RStrip(SubSeq(s, 1, Len(s) - 1)) ELSE s

Strip(s) == RStrip(LStrip(s))

RECURSIVE Replace(_, _, _)
Replace(s, old, new) ==
    IF s = <<>> THEN <<>>
    ELSE (IF Head(s) = old THEN new ELSE <<Head(s)>>) \o Replace(Tail(s), old, new)

Lower(s) ==
    [i \in 1..Len(s) |->
        CASE s[i] = "T" -> "t" [] s[i] = "Y" -> "y" [] s[i] = "N" -> "n"
          [] OTHER -> s[i]]

(***************************************************************************)
(* Exceptions, and the two ways a function ends.                           *)
(***************************************************************************)
HTTPException(status_code, detail) ==
    [type |-> "HTTPException", status_code |-> status_code, detail |-> detail]

ValueError(msg) == [type |-> "ValueError", msg |-> msg]

PyodbcError(sqlstate, msg) == [type |-> "pyodbc.Error", args |-> <<sqlstate, msg>>]

Return(v) == [ok |-> TRUE, value |-> v]
Raise(e) == [ok |-> FALSE, exc |-> e]

\* try a; when it raised, b
OrElse(a, b) == IF a.ok THEN a ELSE b

(***************************************************************************)
(* quote_ident                                                             *)
(***************************************************************************)
\* A faulty variant of quote_ident: a "]" in the name is not doubled.
QuoteIdentNoEscape(name) ==
    IF name = <<>> THEN Raise(HTTPException(400, <<"Invalid identifier">>))
    ELSE Return(<<"[">> \o name \o <<"]">>)

QuoteIdent(name) ==
    IF name = <<>> THEN Raise(HTTPException(400, <<"Invalid identifier">>))
    ELSE Return(<<"[">> \o Replace(name, "]", <<"]", "]">>) \o <<"]">>)

\* quote_ident where the handlers use it: on path parameters and catalog
\* names, none of which is empty.
Quoted(name) == QuoteIdent(name).value

(***************************************************************************)
(* Python's int(), Decimal(), float() and datetime.strptime() on the       *)
(* model's characters: digits, "+", "-", ".", ",", ":", " ", "T" and a     *)
(* few letters ("_", exponents, "inf" and "nan" cannot be written).        *)
(***************************************************************************)
HasSign(s) == s # <<>> /\ Head(s) \in {"+", "-"}
Unsigned(s) == IF HasSign(s) THEN Tail(s) ELSE s
IsNegative(s) == s # <<>> /\ Head(s) = "-"

\* the position of the first sep in s
Find(s, sep) == CHOOSE k \in 1..Len(s) : s[k] = sep /\ \A j \in 1..(k - 1) : s[j] # sep

RECURSIVE SplitAt(_, _, _)
SplitAt(s, sep, i) ==
    IF i = 0 THEN <<s>>
    ELSE <<SubSeq(s, 1, i - 1)>>
         \o SplitAt(SubSeq(s, i + 1, Len(s)), sep,
                    IF \E k \in (i + 1)..Len(s) : s[k] = sep
                    THEN Find(SubSeq(s, i + 1, Len(s)), sep) ELSE 0)

\* s.split(sep)
Split(s, sep) ==
    SplitAt(s, sep, IF \E k \in 1..Len(s) : s[k] = sep THEN Find(s, sep) ELSE 0)

IntOfDigits(text, d) ==
    IF d # <<>> /\ AllDigits(d)
    THEN Return(PyInt(IF IsNegative(text) THEN 0 - NatOf(d) ELSE NatOf(d)))
    ELSE Raise(ValueError(<<"invalid literal for int() with base 10: '">>
                          \o text \o <<"'">>))

\* int(text)
PyIntParse(text) == IntOfDigits(text, Unsigned(text))

\* The decimal literal digits* [. digits*] with at least one digit, split at "."
IsPointLiteral(p) ==
    /\ Len(p) \in {1, 2}
    /\ \A i \in 1..Len(p) : AllDigits(p[i])
    /\ \E i \in 1..Len(p) : p[i] # <<>>

PointCoeff(p) == NatOf(IF Len(p) = 2 THEN p[1] \o p[2] ELSE p[1])
PointExp(p) == IF Len(p) = 2 THEN 0 - Len(p[2]) ELSE 0

DecimalOfParts(t, p) ==
    IF IsPointLiteral(p)
    THEN Return([t |-> "Decimal", neg |-> IsNegative(t),
                 coeff |-> PointCoeff(p), exp |-> PointExp(p)])
    ELSE Raise([type |-> "InvalidOperation"])

DecimalOfText(t) == DecimalOfParts(t, Split(Unsigned(t), "."))

\* Decimal(s): surrounding whitespace is removed; trailing zeros are kept.
PyDecimal(s) == DecimalOfText(Strip(s))

RECURSIVE FloatNorm(_, _)
FloatNorm(coeff, exp) ==
    IF coeff = 0 THEN <<0, 0>>
    ELSE IF exp < 0 /\ coeff % 10 = 0 THEN FloatNorm(coeff \div 10, exp + 1)
    ELSE <<coeff, exp>>

FloatOfNorm(text, n) ==
    Return([t |-> "float", neg |-> IsNegative(text), coeff |-> n[1], exp |-> n[2]])

FloatOfParts(text, p) ==
    IF IsPointLiteral(p) THEN FloatOfNorm(text, FloatNorm(PointCoeff(p), PointExp(p)))
    ELSE Raise(ValueError(<<"could not convert string to float: '">> \o text \o <<"'">>))

\* float(text): the value, so "1.50" and "1.5" give the same float.
PyFloatParse(text) == FloatOfParts(text, Split(Unsigned(text), "."))

IsLeap(y) == (y % 4 = 0 /\ y % 100 # 0) \/ y % 400 = 0

DaysInMonth(y, m) ==
    IF m = 2 THEN (IF IsLeap(y) THEN 29 ELSE 28)
    ELSE IF m \in {4, 6, 9, 11} THEN 30 ELSE 31

\* The directives' patterns: %Y \d\d\d\d, %m 1[0-2]|0[1-9]|[1-9],
\* %d 3[0-1]|[1-2]\d|0[1-9]|[1-9]| [1-9], %H 2[0-3]|[0-1]\d|\d,
\* %M [0-5]\d|\d, %S 6[0-1]|[0-5]\d|\d.
DigitsUpTo(tok, lo, hi) ==
    tok # <<>> /\ Len(tok) <= 2 /\ AllDigits(tok) /\ NatOf(tok) >= lo /\ NatOf(tok) <= hi

IsYearTok(tok) == Len(tok) = 4 /\ AllDigits(tok)
IsMonthTok(tok) == DigitsUpTo(tok, 1, 12)
IsDayTok(tok) ==
    \/ DigitsUpTo(tok, 1, 31)
    \/ Len(tok) = 2 /\ tok[1] = " " /\ tok[2] \in (Digits \ {"0"})
DayVal(tok) == IF tok[1] = " " THEN DigitVal(tok[2]) ELSE NatOf(tok)

\* date(y, m, d) accepts years 1..9999 and the days the month has.
ValidDate(y, m, d) == y >= 1 /\ d <= DaysInMonth(y, m)

NoMatch == Raise(ValueError(<<"time data does not match format">>))

\* The year, month and day tokens of a matched date
DateOfToks(y, m, d) ==
    IF IsYearTok(y) /\ IsMonthTok(m) /\ IsDayTok(d)
    THEN (IF ValidDate(NatOf(y), NatOf(m), DayVal(d))
          THEN Return([t |-> "date", y |-> NatOf(y), m |-> NatOf(m), d |-> DayVal(d)])
          ELSE NoMatch)
    ELSE NoMatch

DateOfParts(p) == IF Len(p) = 3 THEN DateOfToks(p[1], p[2], p[3]) ELSE NoMatch

\* datetime.strptime(value, "%Y-%m-%d").date()
Strptime_Ymd(value) == DateOfParts(Split(value, "-"))

\* The length of the day token at the head of s: " " and one digit, or the
\* run of digits s starts with.
RECURSIVE DigitRun(_)
DigitRun(s) == IF s # <<>> /\ Head(s) \in Digits THEN 1 + DigitRun(Tail(s)) ELSE 0

DayTokLen(s) == IF s # <<>> /\ Head(s) = " " THEN Min(2, Len(s)) ELSE DigitRun(s)

\* The hour, minute and second tokens h of a matched time, after the date
TimeOfToks(date, h, seconds) ==
    IF /\ date.ok
       /\ Len(h) = (IF seconds THEN 3 ELSE 2)
       /\ DigitsUpTo(h[1], 0, 23) /\ DigitsUpTo(h[2], 0, 59)
       /\ (seconds => DigitsUpTo(h[3], 0, 59))
    THEN Return([t |-> "datetime", y |-> date.value.y, m |-> date.value.m,
                 d |-> date.value.d, H |-> NatOf(h[1]), M |-> NatOf(h[2]),
                 S |-> IF seconds THEN NatOf(h[3]) ELSE 0])
    ELSE NoMatch

\* after is what follows the day token: the separator, then the time.  The
\* format's " " matches a run of whitespace, its "T" either case of the letter.
AfterDay(date, after, sep, seconds) ==
    IF after = <<>> THEN NoMatch
    ELSE IF sep = " "
    THEN (IF Head(after) = " "
          THEN TimeOfToks(date, Split(LStrip(after), ":"), seconds) ELSE NoMatch)
    ELSE (IF Head(after) \in {"T", "t"}
          THEN TimeOfToks(date, Split(Tail(after), ":"), seconds) ELSE NoMatch)

DayAndTime(y, m, rest, n, sep, seconds) ==
    AfterDay(DateOfToks(y, m, SubSeq(rest, 1, n)), SubSeq(rest, n + 1, Len(rest)),
             sep, seconds)

DatetimeOfParts(p, sep, seconds) ==
    IF Len(p) = 3 THEN DayAndTime(p[1], p[2], p[3], DayTokLen(p[3]), sep, seconds)
    ELSE NoMatch

\* datetime.strptime(value, "%Y-%m-%d" + sep + "%H:%M[:%S]")
Strptime_YmdHMS(value, sep, seconds) == DatetimeOfParts(Split(value, "-"), sep, seconds)

\* _parse_datetime: the candidate formats in order, the first match wins.
ParseDatetime(value) ==
    OrElse(Strptime_YmdHMS(value, " ", TRUE),
    OrElse(Strptime_YmdHMS(value, " ", FALSE),
    OrElse(Strptime_YmdHMS(value, "T", TRUE),
    OrElse(Strptime_YmdHMS(value, "T", FALSE),
           Raise(ValueError(<<"datetime format must be YYYY-MM-DD HH:MM[:SS]">>))))))

\* _parse_date
ParseDate(value) ==
    OrElse(Strptime_Ymd(value), Raise(ValueError(<<"date format must be YYYY-MM-DD">>)))

BitTrue == {<<"1">>, <<"t", "r", "u", "e">>, <<"y", "e", "s">>, <<"y">>}
BitFalse == {<<"0">>, <<"f", "a", "l", "s", "e">>, <<"n", "o">>, <<"n">>}

\* normalize_input_value after its first two lines: text is raw.strip(), dt
\* is the lower-case data type.
NormalizeText(text, dt) ==
       IF dt \in {<<"i", "n", "t">>, <<"b", "i", "g", "i", "n", "t">>,
                  <<"s", "m", "a", "l", "l", "i", "n", "t">>,
                  <<"t", "i", "n", "y", "i", "n", "t">>}
       THEN PyIntParse(text)
       ELSE IF dt \in {<<"d", "e", "c", "i", "m", "a", "l">>,
                       <<"n", "u", "m", "e", "r", "i", "c">>,
                       <<"m", "o", "n", "e", "y">>,
                       <<"s", "m", "a", "l", "l", "m", "o", "n", "e", "y">>}
       THEN OrElse(PyDecimal(Replace(text, ",", <<>>)),
                   Raise(ValueError(<<"numeric field must be a number">>)))
       ELSE IF dt \in {<<"f", "l", "o", "a", "t">>, <<"r", "e", "a", "l">>}
       THEN PyFloatParse(text)
       ELSE IF dt = <<"b", "i", "t">>
       THEN (IF Lower(text) \in BitTrue THEN Return(PyBool(TRUE))
             ELSE IF Lower(text) \in BitFalse THEN Return(PyBool(FALSE))
             ELSE Raise(ValueError(<<"bit field must be true/false or 1/0">>)))
       ELSE IF dt = <<"d", "a", "t", "e">>
       THEN ParseDate(text)
       ELSE IF dt \in {<<"d", "a", "t", "e", "t", "i", "m", "e">>,
                       <<"d", "a", "t", "e", "t", "i", "m", "e", "2">>,
                       <<"s", "m", "a", "l", "l", "d", "a", "t", "e", "t", "i", "m", "e">>}
       THEN ParseDatetime(text)
       ELSE Return(PyStr(text))

\* normalize_input_value(raw, data_type): the typed value, or the exception.
NormalizeInputValue(raw, data_type) == NormalizeText(Strip(raw), Lower(data_type))

(***************************************************************************)
(* str(exc), _error_text(exc) and urllib.parse.quote_plus.                 *)
(***************************************************************************)
PyStrOf(exc) ==
    CASE exc.type = "HTTPException" ->
             <<ToString(exc.status_code), ": ">> \o exc.detail
      [] exc.type = "pyodbc.Error" ->
             <<"('">> \o exc.args[1] \o <<"', '">> \o exc.args[2] \o <<"')">>
      [] OTHER -> exc.msg

\* _error_text
ErrorText(exc) ==
    IF exc.type = "pyodbc.Error" /\ exc.args # <<>>
    THEN (IF Len(exc.args) > 1 THEN exc.args[2] ELSE exc.args[1])
    ELSE PyStrOf(exc)

\* quote_plus of one unit: letters, digits and "_.-~" stay, " " becomes "+",
\* every other character its %XX escape.
QuotePlusUnit(u) ==
    CASE u = " " -> "+"
      [] u = "]" -> "%5D"
      [] u = "[" -> "%5B"
      [] u = "," -> "%2C"
      [] u = ":" -> "%3A"
      [] u = "+" -> "%2B"
      [] u = "'" -> "%27"
      [] u = ": " -> "%3A+"
      [] u = "Invalid value for " -> "Invalid+value+for+"
      [] u = "invalid literal for int() with base 10: '" ->
             "invalid+literal+for+int%28%29+with+base+10%3A+%27"
      [] u = "could not convert string to float: '" ->
             "could+not+convert+string+to+float%3A+%27"
      [] u = "numeric field must be a number" -> "numeric+field+must+be+a+number"
      [] u = "bit field must be true/false or 1/0" ->
             "bit+field+must+be+true%2Ffalse+or+1%2F0"
      [] u = "date format must be YYYY-MM-DD" -> "date+format+must+be+YYYY-MM-DD"
      [] u = "datetime format must be YYYY-MM-DD HH:MM[:SS]" ->
             "datetime+format+must+be+YYYY-MM-DD+HH%3AMM%5B%3ASS%5D"
      [] u = "[08001] Unable to connect" -> "%5B08001%5D+Unable+to+connect"
      [] u = "[23000] Constraint violation" -> "%5B23000%5D+Constraint+violation"
      [] OTHER -> u

QuotePlus(text) == [i \in 1..Len(text) |-> QuotePlusUnit(text[i])]

(***************************************************************************)
(* The database.  Its catalog holds one schema with one base table; the    *)
(* rows of a catalog query are tuples as the driver returns them.          *)
(***************************************************************************)
T_int == <<"i", "n", "t">>
T_decimal == <<"d", "e", "c", "i", "m", "a", "l">>
T_bit == <<"b", "i", "t">>
T_varchar == <<"v", "a", "r", "c", "h", "a", "r">>

\* a table without primary key
DbNoKey ==
    [schema |-> <<"d">>, table |-> <<"n", "]">>,
     columns |-> << <<<<"a">>, T_varchar, "YES", 0>>,
                    <<<<"b">>, T_int, "NO", 0>> >>,
     pk |-> <<>>]

\* a table with a single-column key, an identity column
DbOneKey ==
    [schema |-> <<"d">>, table |-> <<"t">>,
     columns |-> << <<<<"k">>, T_int, "NO", 1>>,
                    <<<<"q">>, T_decimal, "YES", 0>>,
                    <<<<"c", "]">>, T_bit, "YES", 0>> >>,
     pk |-> << <<"k">> >>]

\* a table with a two-column key
DbCompositeKey ==
    [schema |-> <<"d">>, table |-> <<"m">>,
     columns |-> << <<<<"a">>, T_int, "NO", 0>>,
                    <<<<"b">>, T_varchar, "NO", 0>> >>,
     pk |-> << <<"a">>, <<"b">> >>]

Databases == {DbNoKey, DbOneKey, DbCompositeKey}

\* a table name no catalog holds, and a form field no table has
UnknownTable == <<"u">>
OtherField == <<"z">>

\* what a client may submit as a field's value or as pk_value
RawValues == {<<>>, <<" ">>, <<" ", "1">>, <<"y">>, <<"2", ",", "5">>}
PkValues == {<<"7">>, <<"]">>}

\* A database call either succeeds or fails: no connection can be made
\* (the statement is never executed), or the server rejects the statement
\* (a constraint violation; nothing is committed).
NoFault == [at |-> 0, err |-> "none"]

Faults(reads, writes) ==
    {NoFault}
    \cup {[at |-> i, err |-> "connectivity"] : i \in reads \cup writes}
    \cup {[at |-> i, err |-> "constraint"] : i \in writes}

DbError(fault) ==
    IF fault.err = "connectivity"
    THEN PyodbcError(<<"08001">>, <<"[08001] Unable to connect">>)
    ELSE PyodbcError(<<"23000">>, <<"[23000] Constraint violation">>)

\* The n-th database call of a request: connect, execute, fetch or commit.
DbCall(op, sql, params, n, fault) ==
    [op |-> op, sql |-> sql, params |-> params,
     status |-> IF fault.at = n THEN fault.err ELSE "ok"]

DbResult(value, n, fault) ==
    IF fault.at = n THEN Raise(DbError(fault)) ELSE Return(value)

IsTable(cat, schema, table) == schema = cat.schema /\ table = cat.table

(***************************************************************************)
(* The schema introspector.  Each function makes one database call; it     *)
(* gives the call and the function's result.                               *)
(***************************************************************************)
\* list_tables
ListTables(cat, n, fault) ==
    [call |-> DbCall("list_tables", <<"SELECT TABLE_SCHEMA, TABLE_NAME">>, <<>>, n, fault),
     res |-> DbResult(<<[schema |-> cat.schema, name |-> cat.table]>>, n, fault)]

\* current_connection_info
CurrentConnectionInfo(cat, n, fault) ==
    [call |-> DbCall("current_connection_info", <<"SELECT @@SERVERNAME">>, <<>>, n, fault),
     res |-> DbResult([server_name |-> "srv", database_name |-> "db",
                       instance_name |-> "MSSQLSERVER", target_server |-> "srv"],
                      n, fault)]

ColumnRows(cat, schema, table) ==
    IF IsTable(cat, schema, table) THEN cat.columns ELSE <<>>

\* table_columns
TableColumns(cat, schema, table, n, fault) ==
    LET rows == ColumnRows(cat, schema, table)
    IN [call |-> DbCall("table_columns", <<"SELECT c.COLUMN_NAME">>,
                        <<schema, table>>, n, fault),
        res |-> DbResult([i \in 1..Len(rows) |->
                             [name |-> rows[i][1],
                              data_type |-> rows[i][2],
                              nullable |-> (rows[i][3] = "YES"),
                              is_identity |-> (rows[i][4] # 0)]],
                         n, fault)]

KeyRows(cat, schema, table) ==
    IF IsTable(cat, schema, table) THEN cat.pk ELSE <<>>

\* A faulty variant of table_primary_key: the first column of a composite key is used.
PrimaryKeyOfFirst(rows) ==
    IF rows = <<>> THEN Return(PyNone) ELSE Return(PyStr(rows[1]))

\* table_primary_key, after its query: None, the composite-key error, or the column
PrimaryKeyOf(rows) ==
    IF rows = <<>> THEN Return(PyNone)
    ELSE IF Len(rows) > 1
    THEN Raise(HTTPException(400, <<"Composite primary key is not supported yet.">>))
    ELSE Return(PyStr(rows[1]))

\* table_primary_key
TablePrimaryKey(cat, schema, table, n, fault) ==
    [call |-> DbCall("table_primary_key", <<"SELECT KU.COLUMN_NAME">>,
                     <<schema, table>>, n, fault),
     res |-> IF fault.at = n THEN Raise(DbError(fault))
             ELSE PrimaryKeyOf(KeyRows(cat, schema, table))]

TableSql(schema, table) == Quoted(schema) \o <<".">> \o Quoted(table)

\* The rows a SELECT of the table returns: row i as the tuple the driver gives.
RowLimit == 200

RowsOf(cols, limit, count) ==
    [i \in 1..Min(limit, count) |->
        [keys |-> [j \in 1..Len(cols) |-> cols[j].name], row |-> i]]

TableRowsOf(count, schema, table, limit, n, fault, c) ==
    IF ~c.res.ok THEN [calls |-> <<c.call>>, res |-> c.res]
    ELSE IF c.res.value = <<>> THEN [calls |-> <<c.call>>, res |-> Return(<<>>)]
    ELSE [calls |-> <<c.call,
                      DbCall("table_rows",
                             <<"SELECT TOP (", ToString(limit), ") * FROM ">>
                                 \o TableSql(schema, table),
                             <<>>, n + 1, fault)>>,
          res |-> DbResult(RowsOf(c.res.value, limit, count), n + 1, fault)]

\* table_rows: two database calls, n and n + 1
TableRows(cat, count, schema, table, limit, n, fault) ==
    TableRowsOf(count, schema, table, limit, n, fault,
                TableColumns(cat, schema, table, n, fault))

\* table_count
TableCount(cat, count, schema, table, n, fault) ==
    [call |-> DbCall("table_count", <<"SELECT COUNT(1) FROM ">> \o TableSql(schema, table),
                     <<>>, n, fault),
     res |-> DbResult(count, n, fault)]
(***************************************************************************)
(* Responses.  A handler ends with a response or with an exception raised  *)
(* to its caller.                                                          *)
(***************************************************************************)
Raised(exc) == [kind |-> "raised", exc |-> exc]

RedirectResponse(url) == [kind |-> "redirect", status_code |-> 303, url |-> url]

TemplateResponse(context) == [kind |-> "page", status_code |-> 200, context |-> context]

BrowseUrl(schema, table) == <<"/?schema=">> \o schema \o <<"&table=">> \o table

ErrorUrl(schema, table, message) ==
    BrowseUrl(schema, table) \o <<"&error=">> \o QuotePlus(message)

InvalidValueMessage(name, exc) ==
    <<"Invalid value for ">> \o name \o <<": ">> \o PyStrOf(exc)

\* What a handler did: its end, its database calls, the change of the row count.
Outcome(r, c, delta) == [resp |-> r, calls |-> c, delta |-> delta]

\* A form as request.form() gives it: its fields in order, one per key.
FormHas(form, name) == \E i \in 1..Len(form) : form[i].key = name
FormGet(form, name) == form[CHOOSE i \in 1..Len(form) : form[i].key = name].value

(***************************************************************************)
(* insert_row                                                              *)
(***************************************************************************)
RECURSIVE InsertValues(_, _, _)

\* A faulty variant of the loop's body: a blank field is inserted as NULL.
InsertCoercedBlankAsNull(cols, form, values, name, raw, r) ==
    IF raw = <<>>
    THEN InsertValues(Tail(cols), form, Append(values, [name |-> name, value |-> PyNone]))
    ELSE IF ~r.ok THEN [ok |-> FALSE, name |-> name, exc |-> r.exc]
    ELSE InsertValues(Tail(cols), form, Append(values, [name |-> name, value |-> r.value]))

\* The loop's body for a column the form names: raw is the stripped value,
\* r its coercion.
InsertCoerced(cols, form, values, name, raw, r) ==
    IF raw = <<>> THEN InsertValues(Tail(cols), form, values)
    ELSE IF ~r.ok THEN [ok |-> FALSE, name |-> name, exc |-> r.exc]
    ELSE InsertValues(Tail(cols), form, Append(values, [name |-> name, value |-> r.value]))

InsertColumn(cols, form, values, col, raw) ==
    InsertCoerced(cols, form, values, col.name, raw,
                  NormalizeInputValue(raw, col.data_type))

\* The loop over cols: the dict values in insertion order, or the first
\* column whose value fails coercion and the exception.
InsertValues(cols, form, values) ==
    IF cols = <<>> THEN [ok |-> TRUE, values |-> values]
    ELSE IF Head(cols).is_identity \/ ~FormHas(form, Head(cols).name)
    THEN InsertValues(Tail(cols), form, values)
    ELSE InsertColumn(cols, form, values, Head(cols),
                      Strip(FormGet(form, Head(cols).name)))

\* ", ".join(parts)
RECURSIVE Join(_, _)
Join(sep, parts) ==
    IF parts = <<>> THEN <<>>
    ELSE IF Len(parts) = 1 THEN parts[1]
    ELSE parts[1] \o <<sep>> \o Join(sep, Tail(parts))

\* The INSERT statement's text
InsertQuery(schema, table, values) ==
    <<"INSERT INTO ">> \o TableSql(schema, table) \o <<" (">>
        \o Join(", ", [i \in 1..Len(values) |-> Quoted(values[i].name)])
        \o <<") VALUES (">>
        \o Join(", ", [i \in 1..Len(values) |-> <<"?">>])
        \o <<")">>

\* values.values()
ValuesOf(values) == [i \in 1..Len(values) |-> values[i].value]

\* The calls so far and the statement's: connect, execute, commit.
Executed(op, query, params, before, fault) ==
    Append(before, DbCall(op, query, params, Len(before) + 1, fault))

\* A faulty variant of the try block: the exception is not caught.
InsertExecuteUncaught(schema, table, values, before, fault) ==
    Outcome(IF fault.at = Len(before) + 1 THEN Raised(DbError(fault))
            ELSE RedirectResponse(BrowseUrl(schema, table)),
            Executed("insert", InsertQuery(schema, table, values), ValuesOf(values),
                     before, fault),
            IF fault.at = Len(before) + 1 THEN 0 ELSE 1)

\* The statement, its execution inside try/except, and the redirect.
InsertExecute(schema, table, values, before, fault) ==
    Outcome(IF fault.at = Len(before) + 1
            THEN RedirectResponse(ErrorUrl(schema, table, ErrorText(DbError(fault))))
            ELSE RedirectResponse(BrowseUrl(schema, table)),
            Executed("insert", InsertQuery(schema, table, values), ValuesOf(values),
                     before, fault),
            IF fault.at = Len(before) + 1 THEN 0 ELSE 1)

\* A faulty variant: the empty-values check is missing.
InsertWithValuesNoCheck(schema, table, fault, before, v) ==
    IF ~v.ok
    THEN Outcome(RedirectResponse(
                     ErrorUrl(schema, table, InvalidValueMessage(v.name, v.exc))),
                 before, 0)
    ELSE InsertExecute(schema, table, v.values, before, fault)

\* insert_row from the end of the loop (v is what the loop gave)
InsertWithValues(schema, table, fault, before, v) ==
    IF ~v.ok
    THEN Outcome(RedirectResponse(
                     ErrorUrl(schema, table, InvalidValueMessage(v.name, v.exc))),
                 before, 0)
    ELSE IF v.values = <<>>
    THEN Outcome(Raised(HTTPException(400, <<"No values to insert">>)), before, 0)
    ELSE InsertExecute(schema, table, v.values, before, fault)

\* insert_row from the result c of table_columns
InsertWithColumns(schema, table, form, fault, c) ==
    IF ~c.res.ok THEN Outcome(Raised(c.res.exc), <<c.call>>, 0)
    ELSE IF c.res.value = <<>>
    THEN Outcome(Raised(HTTPException(404, <<"Table not found">>)), <<c.call>>, 0)
    ELSE InsertWithValues(schema, table, fault, <<c.call>>,
                          InsertValues(c.res.value, form, <<>>))

\* insert_row
InsertRowRun(cat, schema, table, form, fault) ==
    InsertWithColumns(schema, table, form, fault,
                      TableColumns(cat, schema, table, 1, fault))

(***************************************************************************)
(* update_row                                                              *)
(***************************************************************************)
Falsy(v) == v.t = "None" \/ (v.t = "str" /\ v.s = <<>>)

AllowedCols(cols) == {cols[i].name : i \in 1..Len(cols)}

\* col_map[key]: of the columns named key, the last
ColMap(cols, key) ==
    cols[CHOOSE i \in 1..Len(cols) :
             cols[i].name = key /\ \A j \in (i + 1)..Len(cols) : cols[j].name # key]

\* d[key] = value on a dict kept in insertion order
DictSet(d, key, value) ==
    IF \E i \in 1..Len(d) : d[i].name = key
    THEN [i \in 1..Len(d) |-> IF d[i].name = key THEN [name |-> key, value |-> value] ELSE d[i]]
    ELSE Append(d, [name |-> key, value |-> value])

RECURSIVE UpdateSetValues(_, _, _, _)

\* A faulty variant of the loop's body: a field that fails coercion is left out.
UpdateCoercedSkipInvalid(items, cols, pk_col, set_values, key, raw, r) ==
    IF raw = <<>>
    THEN UpdateSetValues(Tail(items), cols, pk_col, DictSet(set_values, key, PyNone))
    ELSE IF ~r.ok THEN UpdateSetValues(Tail(items), cols, pk_col, set_values)
    ELSE UpdateSetValues(Tail(items), cols, pk_col, DictSet(set_values, key, r.value))

\* The loop's body for a field that is a column and not the key: raw is the
\* stripped value, r its coercion.
UpdateCoerced(items, cols, pk_col, set_values, key, raw, r) ==
    IF raw = <<>>
    THEN UpdateSetValues(Tail(items), cols, pk_col, DictSet(set_values, key, PyNone))
    ELSE IF ~r.ok THEN [ok |-> FALSE, name |-> key, exc |-> r.exc]
    ELSE UpdateSetValues(Tail(items), cols, pk_col, DictSet(set_values, key, r.value))

UpdateField(items, cols, pk_col, set_values, key, raw) ==
    UpdateCoerced(items, cols, pk_col, set_values, key, raw,
                  NormalizeInputValue(raw, ColMap(cols, key).data_type))

\* The loop over form.items(): the dict set_values in insertion order, or
\* the first field whose value fails coercion and the exception.
UpdateSetValues(items, cols, pk_col, set_values) ==
    IF items = <<>> THEN [ok |-> TRUE, values |-> set_values]
    ELSE IF Head(items).key \in AllowedCols(cols) /\ Head(items).key # pk_col
    THEN UpdateField(items, cols, pk_col, set_values, Head(items).key,
                     Strip(Head(items).value))
    ELSE UpdateSetValues(Tail(items), cols, pk_col, set_values)

\* A faulty variant of the UPDATE statement: the key value is written into the text.
UpdateQueryInterpolated(schema, table, set_values, pk_col, pk_value) ==
    <<"UPDATE ">> \o TableSql(schema, table) \o <<" ", "SET ">>
        \o Join(", ", [i \in 1..Len(set_values) |-> Quoted(set_values[i].name) \o <<" = ?">>])
        \o <<" ", "WHERE ">> \o Quoted(pk_col) \o <<" = '">> \o pk_value \o <<"'">>

\* The UPDATE statement's text (pk_value is no part of it)
UpdateQuery(schema, table, set_values, pk_col, pk_value) ==
    <<"UPDATE ">> \o TableSql(schema, table) \o <<" ", "SET ">>
        \o Join(", ", [i \in 1..Len(set_values) |-> Quoted(set_values[i].name) \o <<" = ?">>])
        \o <<" ", "WHERE ">> \o Quoted(pk_col) \o <<" = ?">>

\* A faulty variant of the parameter list: the key value is bound first.
UpdateParamsKeyFirst(set_values, pk_value) == <<PyStr(pk_value)>> \o ValuesOf(set_values)

\* *set_values.values(), pk_value
UpdateParams(set_values, pk_value) == Append(ValuesOf(set_values), PyStr(pk_value))

\* The statement, its execution inside try/except, and the redirect.
UpdateExecute(schema, table, set_values, pk_col, pk_value, before, fault) ==
    Outcome(IF fault.at = Len(before) + 1
            THEN RedirectResponse(ErrorUrl(schema, table, ErrorText(DbError(fault))))
            ELSE RedirectResponse(BrowseUrl(schema, table)),
            Executed("update", UpdateQuery(schema, table, set_values, pk_col, pk_value),
                     UpdateParams(set_values, pk_value), before, fault),
            0)

\* update_row from the end of the loop (v is what the loop gave)
UpdateWithValues(schema, table, pk_col, pk_value, fault, before, v) ==
    IF ~v.ok
    THEN Outcome(RedirectResponse(
                     ErrorUrl(schema, table, InvalidValueMessage(v.name, v.exc))),
                 before, 0)
    ELSE IF v.values = <<>>
    THEN Outcome(Raised(HTTPException(400, <<"No values to update">>)), before, 0)
    ELSE UpdateExecute(schema, table, v.values, pk_col, pk_value, before, fault)

\* update_row from the results c of table_columns and k of table_primary_key
UpdateWithKey(schema, table, pk_value, form, fault, c, k) ==
    IF ~c.res.ok THEN Outcome(Raised(c.res.exc), <<c.call>>, 0)
    ELSE IF ~k.res.ok THEN Outcome(Raised(k.res.exc), <<c.call, k.call>>, 0)
    ELSE IF c.res.value = <<>> \/ Falsy(k.res.value)
    THEN Outcome(Raised(HTTPException(400, <<"Table or primary key not found">>)),
                 <<c.call, k.call>>, 0)
    ELSE UpdateWithValues(schema, table, k.res.value.s, pk_value, fault,
                          <<c.call, k.call>>,
                          UpdateSetValues(form, c.res.value, k.res.value.s, <<>>))

\* update_row
UpdateRowRun(cat, schema, table, pk_value, form, fault) ==
    UpdateWithKey(schema, table, pk_value, form, fault,
                  TableColumns(cat, schema, table, 1, fault),
                  TablePrimaryKey(cat, schema, table, 2, fault))

(***************************************************************************)
(* delete_row                                                              *)
(***************************************************************************)
DeleteQuery(schema, table, pk_col) ==
    <<"DELETE FROM ">> \o TableSql(schema, table)
        \o <<" WHERE ">> \o Quoted(pk_col) \o <<" = ?">>

\* The statement, its execution inside try/except, and the redirect;
\* matched is the number of rows whose key is pk_value.
DeleteExecute(schema, table, pk_col, pk_value, matched, before, fault) ==
    Outcome(IF fault.at = Len(before) + 1
            THEN RedirectResponse(ErrorUrl(schema, table, ErrorText(DbError(fault))))
            ELSE RedirectResponse(BrowseUrl(schema, table)),
            Executed("delete", DeleteQuery(schema, table, pk_col), <<PyStr(pk_value)>>,
                     before, fault),
            IF fault.at = Len(before) + 1 THEN 0 ELSE 0 - matched)

\* delete_row from the result k of table_primary_key
DeleteWithKey(schema, table, pk_value, matched, fault, k) ==
    IF ~k.res.ok THEN Outcome(Raised(k.res.exc), <<k.call>>, 0)
    ELSE IF Falsy(k.res.value)
    THEN Outcome(Raised(HTTPException(400, <<"Primary key not found">>)), <<k.call>>, 0)
    ELSE DeleteExecute(schema, table, k.res.value.s, pk_value, matched, <<k.call>>, fault)

\* delete_row
DeleteRowRun(cat, schema, table, pk_value, matched, fault) ==
    DeleteWithKey(schema, table, pk_value, matched, fault,
                  TablePrimaryKey(cat, schema, table, 1, fault))

(***************************************************************************)
(* home                                                                    *)
(***************************************************************************)
\* What the try block assigned before it ended (set), the exception that
\* ended it or none (end), and its database calls, 3 to 7 of the request.
Loaded(columns, pk_column, rows, total_rows, end, c) ==
    [set |-> [columns |-> columns, pk_column |-> pk_column, rows |-> rows,
              total_rows |-> total_rows],
     end |-> end, calls |-> c]

NotLoaded == Loaded(<<>>, PyNone, <<>>, 0, Return(PyNone), <<>>)

LoadCount(c, k, r, n) ==
    IF ~n.res.ok
    THEN Loaded(c.res.value, k.res.value, r.res.value, 0, n.res,
                <<c.call, k.call>> \o r.calls \o <<n.call>>)
    ELSE Loaded(c.res.value, k.res.value, r.res.value, n.res.value, Return(PyNone),
                <<c.call, k.call>> \o r.calls \o <<n.call>>)

LoadRows(cat, count, schema, table, fault, c, k, r) ==
    IF ~r.res.ok
    THEN Loaded(c.res.value, k.res.value, <<>>, 0, r.res, <<c.call, k.call>> \o r.calls)
    ELSE LoadCount(c, k, r, TableCount(cat, count, schema, table, 5 + Len(r.calls), fault))

LoadKey(cat, count, schema, table, fault, c, k) ==
    IF ~k.res.ok THEN Loaded(c.res.value, PyNone, <<>>, 0, k.res, <<c.call, k.call>>)
    ELSE LoadRows(cat, count, schema, table, fault, c, k,
                  TableRows(cat, count, schema, table, RowLimit, 5, fault))

\* A faulty variant of the try block: an unknown table is loaded like any other.
LoadColumnsNoCheck(cat, count, schema, table, fault, c) ==
    IF ~c.res.ok THEN Loaded(<<>>, PyNone, <<>>, 0, c.res, <<c.call>>)
    ELSE LoadKey(cat, count, schema, table, fault, c,
                 TablePrimaryKey(cat, schema, table, 4, fault))

LoadColumns(cat, count, schema, table, fault, c) ==
    IF ~c.res.ok THEN Loaded(<<>>, PyNone, <<>>, 0, c.res, <<c.call>>)
    ELSE IF c.res.value = <<>>
    THEN Loaded(<<>>, PyNone, <<>>, 0, Raise(HTTPException(404, <<"Table not found">>)),
                <<c.call>>)
    ELSE LoadKey(cat, count, schema, table, fault, c,
                 TablePrimaryKey(cat, schema, table, 4, fault))

\* The try block of home
HomeLoad(cat, count, schema, table, fault) ==
    LoadColumns(cat, count, schema, table, fault,
                TableColumns(cat, schema, table, 3, fault))

\* A faulty variant of the except clause: the exception is raised again.
HomePageUncaught(schema, table, error, t, i, l) ==
    IF ~l.end.ok THEN Outcome(Raised(l.end.exc), <<t.call, i.call>> \o l.calls, 0)
    ELSE Outcome(TemplateResponse(
                [tables |-> t.res.value,
                 selected_schema |-> schema,
                 selected_table |-> table,
                 connection |-> i.res.value,
                 columns |-> l.set.columns,
                 rows |-> l.set.rows,
                 total_rows |-> l.set.total_rows,
                 pk_column |-> l.set.pk_column,
                 error_message |-> error]),
            <<t.call, i.call>> \o l.calls, 0)

\* The except clause and the template response; l is what the try block did
HomePage(schema, table, error, t, i, l) ==
    Outcome(TemplateResponse(
                [tables |-> t.res.value,
                 selected_schema |-> schema,
                 selected_table |-> table,
                 connection |-> i.res.value,
                 columns |-> l.set.columns,
                 rows |-> l.set.rows,
                 total_rows |-> l.set.total_rows,
                 pk_column |-> l.set.pk_column,
                 error_message |-> IF ~l.end.ok THEN PyStr(PyStrOf(l.end.exc)) ELSE error]),
            <<t.call, i.call>> \o l.calls, 0)

\* home from the results t of list_tables and i of current_connection_info
HomeWithTables(cat, count, schema, table, error, fault, t, i) ==
    IF ~t.res.ok THEN Outcome(Raised(t.res.exc), <<t.call>>, 0)
    ELSE IF ~i.res.ok THEN Outcome(Raised(i.res.exc), <<t.call, i.call>>, 0)
    ELSE HomePage(schema, table, error, t, i,
                  IF ~Falsy(schema) /\ ~Falsy(table)
                  THEN HomeLoad(cat, count, schema.s, table.s, fault)
                  ELSE NotLoaded)

\* home: schema, table and error are the query parameters (None when absent)
HomeRun(cat, count, schema, table, error, fault) ==
    HomeWithTables(cat, count, schema, table, error, fault,
                   ListTables(cat, 1, fault), CurrentConnectionInfo(cat, 2, fault))

(***************************************************************************)
(* The requests.                                                           *)
(***************************************************************************)
\* the (schema, table) pairs of the requests: the catalog's table and an unknown one
Targets(cat) == {<<cat.schema, cat.table>>, <<cat.schema, UnknownTable>>}

FormKeys(cat) == {cat.columns[i][1] : i \in 1..Len(cat.columns)} \cup {OtherField}

FormsOfLen(cat, n) ==
    {f \in [1..n -> [key : FormKeys(cat), value : RawValues]] :
        \A i, j \in 1..n : i # j => f[i].key # f[j].key}

Forms(cat) == UNION {FormsOfLen(cat, n) : n \in 0..MaxFields}

Idents == UNION {[1..n -> {"a", "[", "]"}] : n \in 0..MaxIdentLen}

NoRequest == [kind |-> "none"]
NoResponse == [kind |-> "none"]

Init ==
    /\ catalog \in Databases
    /\ rowCount \in 0..MaxRows
    /\ req = NoRequest
    /\ resp = NoResponse
    /\ calls = <<>>

\* A handler runs from the request r to its end o; nothing of a request is
\* kept once it is answered (Answered).
Handled(r, o) ==
    /\ rowCount + o.delta \in 0..MaxRows
    /\ req' = r
    /\ resp' = o.resp
    /\ calls' = o.calls
    /\ rowCount' = rowCount + o.delta
    /\ UNCHANGED catalog

\* GET /
Home ==
    /\ req = NoRequest
    /\ \E schema \in {PyNone, PyStr(catalog.schema)},
          table \in {PyNone, PyStr(catalog.table), PyStr(UnknownTable)},
          error \in {PyNone, PyStr(<<"e">>)},
          fault \in Faults(1..7, {}) :
           Handled([kind |-> "home", schema |-> schema, table |-> table,
                    error |-> error, fault |-> fault],
                   HomeRun(catalog, rowCount, schema, table, error, fault))

\* POST /table/{schema}/{table}/insert
InsertRow ==
    /\ req = NoRequest
    /\ \E target \in Targets(catalog), form \in Forms(catalog), fault \in Faults({1}, {2}) :
           Handled([kind |-> "insert_row", schema |-> target[1], table |-> target[2],
                    form |-> form, fault |-> fault],
                   InsertRowRun(catalog, target[1], target[2], form, fault))

\* POST /table/{schema}/{table}/update/{pk_value}
UpdateRow ==
    /\ req = NoRequest
    /\ \E target \in Targets(catalog), pk_value \in PkValues, form \in Forms(catalog),
          fault \in Faults({1, 2}, {3}) :
           Handled([kind |-> "update_row", schema |-> target[1], table |-> target[2],
                    pk_value |-> pk_value, form |-> form, fault |-> fault],
                   UpdateRowRun(catalog, target[1], target[2], pk_value, form, fault))

\* POST /table/{schema}/{table}/delete/{pk_value}
DeleteRow ==
    /\ req = NoRequest
    /\ \E target \in Targets(catalog), pk_value \in PkValues, matched \in {0, 1},
          fault \in Faults({1}, {2}) :
           Handled([kind |-> "delete_row", schema |-> target[1], table |-> target[2],
                    pk_value |-> pk_value, fault |-> fault],
                   DeleteRowRun(catalog, target[1], target[2], pk_value, matched, fault))

\* The response is sent (or the exception turned into an error response by
\* the framework); the request's objects are dropped.
Answered ==
    /\ req # NoRequest
    /\ req' = NoRequest
    /\ resp' = NoResponse
    /\ calls' = <<>>
    /\ UNCHANGED <<catalog, rowCount>>

Next == Home \/ InsertRow \/ UpdateRow \/ DeleteRow \/ Answered

Spec == Init /\ [][Next]_vars

\* quote_ident called on its own, on every identifier up to MaxIdentLen
QuoteIdentCall ==
    \E name \in Idents :
        /\ req = NoRequest
        /\ req' = [kind |-> "quote_ident", name |-> name]
        /\ resp' = (LET r == QuoteIdent(name)
                    IN IF r.ok THEN [kind |-> "returned", value |-> r.value]
                       ELSE Raised(r.exc))
        /\ UNCHANGED <<catalog, rowCount, calls>>

NextQuote == QuoteIdentCall \/ Answered

SpecQuote == Init /\ [][NextQuote]_vars

(***************************************************************************)
(* What the properties below speak of.                                     *)
(***************************************************************************)
IsMutationRequest == req.kind \in {"insert_row", "update_row", "delete_row"}

IsStatement(call) == call.op \in {"insert", "update", "delete"}

\* the INSERT, UPDATE or DELETE call among cs, if the handler got that far
HasStatementIn(cs) == \E i \in 1..Len(cs) : IsStatement(cs[i])
StatementIn(cs) == cs[CHOOSE i \in 1..Len(cs) : IsStatement(cs[i])]

HasStatement == HasStatementIn(calls)
Statement == StatementIn(calls)

StatementFailed == \E i \in 1..Len(calls) : IsStatement(calls[i]) /\ calls[i].status # "ok"
LookupFailed == \E i \in 1..Len(calls) : ~IsStatement(calls[i]) /\ calls[i].status # "ok"

\* the catalog's rows for the request's table: <<name, type, nullable, identity>>
ReqColumns == ColumnRows(catalog, req.schema, req.table)
ReqKeys == KeyRows(catalog, req.schema, req.table)

Blank(value) == Strip(value) = <<>>

\* insert_row: column i of the table is submitted non-blank and is no identity column
InsertSubmitted(form, i) ==
    /\ ReqColumns[i][4] = 0
    /\ FormHas(form, ReqColumns[i][1])
    /\ ~Blank(FormGet(form, ReqColumns[i][1]))

InsertCoercion(form, i) ==
    NormalizeInputValue(FormGet(form, ReqColumns[i][1]), ReqColumns[i][2])

\* update_row: field i of the form is a column of the table and not its key
UpdateSubmitted(form, i) ==
    /\ \E j \in 1..Len(ReqColumns) : ReqColumns[j][1] = form[i].key
    /\ form[i].key # ReqKeys[1]

UpdateType(form, i) ==
    ReqColumns[CHOOSE j \in 1..Len(ReqColumns) : ReqColumns[j][1] = form[i].key][2]

UpdateCoercion(form, i) == NormalizeInputValue(form[i].value, UpdateType(form, i))

\* the positions (of columns for insert_row, of form fields for update_row)
\* whose submitted value fails coercion
InvalidPositions ==
    IF req.kind = "insert_row"
    THEN {i \in 1..Len(ReqColumns) :
              InsertSubmitted(req.form, i) /\ ~InsertCoercion(req.form, i).ok}
    ELSE {i \in 1..Len(req.form) :
              /\ UpdateSubmitted(req.form, i)
              /\ ~Blank(req.form[i].value)
              /\ ~UpdateCoercion(req.form, i).ok}

\* the handler got to its loop over the fields: its lookups succeeded, the
\* table has columns and, for update_row, one key column
LoopReached ==
    \/ req.kind = "insert_row" /\ req.fault.at # 1 /\ ReqColumns # <<>>
    \/ /\ req.kind = "update_row"
       /\ req.fault.at \notin {1, 2}
       /\ ReqColumns # <<>>
       /\ Len(ReqKeys) = 1

CoercionFails == LoopReached /\ InvalidPositions # {}

FirstInvalid == CHOOSE i \in InvalidPositions : \A j \in InvalidPositions : i <= j

FirstInvalidName ==
    IF req.kind = "insert_row" THEN ReqColumns[FirstInvalid][1]
    ELSE req.form[FirstInvalid].key

FirstInvalidExc ==
    IF req.kind = "insert_row" THEN InsertCoercion(req.form, FirstInvalid).exc
    ELSE UpdateCoercion(req.form, FirstInvalid).exc

\* a 303 redirect to Browse for the request's table that carries an error parameter
IsErrorRedirect(r) ==
    /\ r.kind = "redirect"
    /\ r.status_code = 303
    /\ Len(r.url) > Len(BrowseUrl(req.schema, req.table)) + 1
    /\ SubSeq(r.url, 1, Len(BrowseUrl(req.schema, req.table)) + 1)
           = BrowseUrl(req.schema, req.table) \o <<"&error=">>

(***************************************************************************)
(* C1 (as stated): whatever fails while insert_row, update_row or          *)
(* delete_row handles a request - a coercion, the statement, or a metadata *)
(* lookup - the handler ends with a 303 redirect to Browse carrying an     *)
(* error parameter and never raises.                                       *)
(***************************************************************************)
C1_EveryFailureRedirects ==
    (IsMutationRequest /\ (StatementFailed \/ LookupFailed \/ CoercionFails))
        => IsErrorRedirect(resp)

(***************************************************************************)
(* C1 (amended): a coercion failure and a failure of the INSERT, UPDATE or *)
(* DELETE statement (connection, execution, commit) end in a 303 redirect  *)
(* to Browse carrying an error parameter; a database error in a metadata   *)
(* lookup (table_columns, table_primary_key), made outside the try block,  *)
(* is raised to the caller.                                                *)
(***************************************************************************)
C1_StatementAndCoercionFailuresRedirect ==
    IsMutationRequest =>
        /\ (StatementFailed \/ CoercionFails) => IsErrorRedirect(resp)
        /\ StatementFailed =>
               resp.url = ErrorUrl(req.schema, req.table, DbError(req.fault).args[2])
        /\ LookupFailed => resp = Raised(DbError(req.fault))

C1_Witness ==
    /\ req.kind = "update_row"
    /\ StatementFailed
    /\ Statement.status = "constraint"
    /\ resp.kind = "redirect"

(***************************************************************************)
(* C2: submitted values are never part of the SQL text.  Requests that     *)
(* differ only in the contents of the field values (blank fields staying   *)
(* blank) and in pk_value give the same text; the text has one placeholder *)
(* per parameter; the parameters are the values in the order of their      *)
(* placeholders, pk_value last.                                            *)
(***************************************************************************)
VariantForms(form) ==
    {[i \in 1..Len(form) |-> [key |-> form[i].key, value |-> values[i]]] :
        values \in {vs \in [1..Len(form) -> RawValues] :
                       \A i \in 1..Len(form) : Blank(vs[i]) = Blank(form[i].value)}}

Variants(r) ==
    CASE r.kind = "insert_row" -> {[r EXCEPT !.form = f] : f \in VariantForms(r.form)}
      [] r.kind = "update_row" ->
             {[r EXCEPT !.form = f, !.pk_value = k] :
                  f \in VariantForms(r.form), k \in PkValues}
      [] r.kind = "delete_row" -> {[r EXCEPT !.pk_value = k] : k \in PkValues}

CallsOf(r) ==
    CASE r.kind = "insert_row" ->
             InsertRowRun(catalog, r.schema, r.table, r.form, r.fault).calls
      [] r.kind = "update_row" ->
             UpdateRowRun(catalog, r.schema, r.table, r.pk_value, r.form, r.fault).calls
      [] r.kind = "delete_row" ->
             DeleteRowRun(catalog, r.schema, r.table, r.pk_value, 0, r.fault).calls

Placeholders(sql) == Cardinality({i \in 1..Len(sql) : sql[i] \in {"?", " = ?"}})

\* the fields whose values a statement binds, in the order the handler meets them
InsertedColumns(form) ==
    LET Test(i) == InsertSubmitted(form, i)
    IN SelectSeq([i \in 1..Len(ReqColumns) |-> i], Test)

UpdatedFields(form) ==
    LET Test(i) == UpdateSubmitted(form, i)
    IN SelectSeq([i \in 1..Len(form) |-> i], Test)

InsertedValues(form) ==
    [n \in 1..Len(InsertedColumns(form)) |->
        InsertCoercion(form, InsertedColumns(form)[n]).value]

UpdatedValues(form) ==
    [n \in 1..Len(UpdatedFields(form)) |->
        IF Blank(form[UpdatedFields(form)[n]].value) THEN PyNone
        ELSE UpdateCoercion(form, UpdatedFields(form)[n]).value]

BoundValues ==
    CASE req.kind = "insert_row" -> InsertedValues(req.form)
      [] req.kind = "update_row" -> Append(UpdatedValues(req.form), PyStr(req.pk_value))
      [] req.kind = "delete_row" -> <<PyStr(req.pk_value)>>

C2_ValuesOnlyAsParameters ==
    (IsMutationRequest /\ HasStatement) =>
        /\ \A v \in Variants(req) :
               LET cs == CallsOf(v)
               IN HasStatementIn(cs) => StatementIn(cs).sql = Statement.sql
        /\ Placeholders(Statement.sql) = Len(Statement.params)
        /\ Statement.params = BoundValues

C2_Witness ==
    /\ req.kind = "update_row"
    /\ HasStatement
    /\ Len(Statement.params) = 3
    /\ \E v \in Variants(req) :
           /\ \E i \in 1..Len(req.form) : v.form[i].value # req.form[i].value
           /\ v.pk_value # req.pk_value
           /\ HasStatementIn(CallsOf(v))

(***************************************************************************)
(* C3: quote_ident rejects the empty name with 400 "Invalid identifier";   *)
(* any other name is returned between brackets with every "]" doubled, so  *)
(* that the first bracket that closes the quoting is the last character,   *)
(* the name is recovered by undoing the doubling, and no two names share a *)
(* quoted form.                                                            *)
(***************************************************************************)
RECURSIVE Unescape(_)
Unescape(s) ==
    IF s = <<>> THEN <<>>
    ELSE IF s[1] = "]" /\ Len(s) >= 2 /\ s[2] = "]"
    THEN <<"]">> \o Unescape(SubSeq(s, 3, Len(s)))
    ELSE <<s[1]>> \o Unescape(Tail(s))

\* the position, from i on, of the first "]" that is not the first of a pair
RECURSIVE FirstClose(_, _)
FirstClose(s, i) ==
    IF i > Len(s) THEN 0
    ELSE IF s[i] # "]" THEN FirstClose(s, i + 1)
    ELSE IF i < Len(s) /\ s[i + 1] = "]" THEN FirstClose(s, i + 2)
    ELSE i

Inner(s) == SubSeq(s, 2, Len(s) - 1)

CountOf(u, s) == Cardinality({i \in 1..Len(s) : s[i] = u})

C3_QuoteIdentEscapes ==
    req.kind = "quote_ident" =>
        IF req.name = <<>>
        THEN resp = Raised(HTTPException(400, <<"Invalid identifier">>))
        ELSE /\ resp.kind = "returned"
             /\ Len(resp.value) = Len(req.name) + CountOf("]", req.name) + 2
             /\ resp.value[1] = "["
             /\ FirstClose(resp.value, 2) = Len(resp.value)
             /\ Unescape(Inner(resp.value)) = req.name
             /\ \A other \in Idents \ {<<>>, req.name} : Quoted(other) # resp.value

C3_Witness ==
    /\ req.kind = "quote_ident"
    /\ Len(req.name) >= 3
    /\ req.name[1] = "]"
    /\ req.name[Len(req.name)] = "]"
    /\ resp.kind = "returned"

(***************************************************************************)
(* C4: once update_row or delete_row has looked the key up, a table        *)
(* without a primary key is rejected with 400 ("Table or primary key not   *)
(* found" / "Primary key not found") and a table with a composite key with *)
(* 400 "Composite primary key is not supported yet.", in both cases        *)
(* without an UPDATE or DELETE; a statement that is executed has the       *)
(* single key column, quoted, as its WHERE clause.                         *)
(***************************************************************************)
KeyLookedUp ==
    /\ req.kind \in {"update_row", "delete_row"}
    /\ \E i \in 1..Len(calls) :
           calls[i].op = "table_primary_key" /\ calls[i].status = "ok"

IsBadRequest(r, details) ==
    /\ r.kind = "raised"
    /\ r.exc.type = "HTTPException"
    /\ r.exc.status_code = 400
    /\ r.exc.detail \in details

EndsWith(s, t) == Len(s) >= Len(t) /\ SubSeq(s, Len(s) - Len(t) + 1, Len(s)) = t

C4_SingleKeyRequired ==
    KeyLookedUp =>
        /\ Len(ReqKeys) = 0 =>
               /\ IsBadRequest(resp, {<<"Table or primary key not found">>,
                                      <<"Primary key not found">>})
               /\ ~HasStatement
        /\ Len(ReqKeys) >= 2 =>
               /\ IsBadRequest(resp, {<<"Composite primary key is not supported yet.">>})
               /\ ~HasStatement
        /\ HasStatement =>
               /\ Len(ReqKeys) = 1
               /\ \/ EndsWith(Statement.sql, <<"WHERE ">> \o Quoted(ReqKeys[1]) \o <<" = ?">>)
                  \/ EndsWith(Statement.sql, <<" WHERE ">> \o Quoted(ReqKeys[1]) \o <<" = ?">>)
               /\ CountOf("WHERE ", Statement.sql) + CountOf(" WHERE ", Statement.sql) = 1

C4_Witness ==
    /\ req.kind = "delete_row"
    /\ KeyLookedUp
    /\ Len(ReqKeys) = 2
    /\ resp.kind = "raised"

(***************************************************************************)
(* C5 (as stated): an insert whose submitted fields are all blank (or name *)
(* no insertable column) fails with 400 "No values to insert" and no       *)
(* database call is made.                                                  *)
(***************************************************************************)
NothingToInsert ==
    /\ req.kind = "insert_row"
    /\ \A i \in 1..Len(ReqColumns) : ~InsertSubmitted(req.form, i)

C5_NoDatabaseCall ==
    NothingToInsert =>
        /\ resp = Raised(HTTPException(400, <<"No values to insert">>))
        /\ calls = <<>>

(***************************************************************************)
(* C5 (amended): an insert whose submitted fields are all blank (or name   *)
(* no insertable column) executes no INSERT.  It makes one database call,  *)
(* the lookup of the table's columns; when the lookup succeeds and the     *)
(* table has columns, the request fails with 400 "No values to insert".    *)
(***************************************************************************)
C5_NoInsertStatement ==
    NothingToInsert =>
        /\ ~HasStatement
        /\ Len(calls) = 1
        /\ calls[1].op = "table_columns"
        /\ (calls[1].status = "ok" /\ ReqColumns # <<>>) =>
               resp = Raised(HTTPException(400, <<"No values to insert">>))

C5_Witness ==
    /\ NothingToInsert
    /\ Len(req.form) = 2
    /\ \A i \in 1..2 : Blank(req.form[i].value) /\ req.form[i].key # OtherField
    /\ resp = Raised(HTTPException(400, <<"No values to insert">>))

(***************************************************************************)
(* C6: when a submitted value fails coercion, insert_row and update_row    *)
(* stop at the first such field: the response is the redirect to Browse    *)
(* whose error is "Invalid value for <field>: <reason>", no INSERT or      *)
(* UPDATE is executed and the table is left as it was, even when other     *)
(* fields of the request coerce.                                           *)
(***************************************************************************)
C6_Redirect ==
    RedirectResponse(ErrorUrl(req.schema, req.table,
                              InvalidValueMessage(FirstInvalidName, FirstInvalidExc)))

\* the change of the number of rows that the handler makes for request r
RowsAdded(r) ==
    IF r.kind = "insert_row"
    THEN InsertRowRun(catalog, r.schema, r.table, r.form, r.fault).delta
    ELSE UpdateRowRun(catalog, r.schema, r.table, r.pk_value, r.form, r.fault).delta

C6_InvalidFieldAborts ==
    CoercionFails =>
        /\ resp = C6_Redirect
        /\ ~HasStatement
        /\ \A i \in 1..Len(calls) : calls[i].op \in {"table_columns", "table_primary_key"}
        /\ RowsAdded(req) = 0

C6_Witness ==
    /\ req.kind = "update_row"
    /\ CoercionFails
    /\ FirstInvalid = 2
    /\ UpdateSubmitted(req.form, 1)
    /\ ~Blank(req.form[1].value)
    /\ UpdateCoercion(req.form, 1).ok
    /\ resp.kind = "redirect"

(***************************************************************************)
(* C7: when home is asked for a schema and table that have no columns (the *)
(* table is unknown), the page is rendered with no columns, no rows, no    *)
(* key column, a count of 0 and the inline message of the 404 "Table not   *)
(* found"; nothing is asked of the database after the column lookup.       *)
(***************************************************************************)
HomeSelected == req.kind = "home" /\ ~Falsy(req.schema) /\ ~Falsy(req.table)

HomeColumns == ColumnRows(catalog, req.schema.s, req.table.s)
HomeKeys == KeyRows(catalog, req.schema.s, req.table.s)

\* home entered its try block: list_tables and current_connection_info succeeded
HomeTried == HomeSelected /\ req.fault.at \notin {1, 2}

C7_UnknownTableInline ==
    (HomeTried /\ req.fault.at # 3 /\ HomeColumns = <<>>) =>
        /\ resp.kind = "page"
        /\ resp.status_code = 200
        /\ resp.context.columns = <<>>
        /\ resp.context.rows = <<>>
        /\ resp.context.pk_column = PyNone
        /\ resp.context.total_rows = 0
        /\ resp.context.error_message = PyStr(<<"404", ": ", "Table not found">>)
        /\ Len(calls) = 3
        /\ calls[3].op = "table_columns"

C7_Witness ==
    /\ HomeTried
    /\ req.table = PyStr(UnknownTable)
    /\ req.error # PyNone
    /\ resp.kind = "page"
    /\ resp.context.error_message = PyStr(<<"404", ": ", "Table not found">>)

(***************************************************************************)
(* C8 (as stated): whatever database call fails while home handles a       *)
(* request, the page is still rendered and shows the error inline.         *)
(***************************************************************************)
C8_EveryFailureInline ==
    (req.kind = "home" /\ \E i \in 1..Len(calls) : calls[i].status # "ok") =>
        /\ resp.kind = "page"
        /\ resp.context.error_message = PyStr(PyStrOf(DbError(req.fault)))

(***************************************************************************)
(* C8 (amended): an exception raised while the selected table is loaded    *)
(* (its columns, key, rows or count; the 404 of an unknown table and the   *)
(* 400 of a composite key included) is caught: the page is rendered with   *)
(* the exception's text as its error message.  A database error in         *)
(* list_tables or current_connection_info, called before the try block, is *)
(* raised to the caller.                                                   *)
(***************************************************************************)
C8_LoadFailuresInline ==
    req.kind = "home" =>
        /\ (\E i \in 1..Len(calls) : i <= 2 /\ calls[i].status # "ok") =>
               resp = Raised(DbError(req.fault))
        /\ (\E i \in 1..Len(calls) : i >= 3 /\ calls[i].status # "ok") =>
               /\ resp.kind = "page"
               /\ resp.context.error_message = PyStr(PyStrOf(DbError(req.fault)))
        /\ HomeTried => resp.kind = "page"
        /\ (HomeTried /\ req.fault.at \notin {3, 4} /\ Len(HomeKeys) >= 2) =>
               resp.context.error_message
                   = PyStr(<<"400", ": ", "Composite primary key is not supported yet.">>)
        /\ (req.kind = "home" /\ resp.kind = "page" /\ Len(calls) = 7
                /\ calls[7].status = "ok") =>
               resp.context.error_message = req.error

C8_Witness ==
    /\ req.kind = "home"
    /\ Len(calls) = 6
    /\ calls[6].op = "table_rows"
    /\ calls[6].status # "ok"
    /\ resp.kind = "page"
    /\ resp.context.columns # <<>>

(***************************************************************************)
(* C9: the INSERT that insert_row executes names, in the order of the      *)
(* table's columns, exactly the columns that are not identity columns, are *)
(* present in the form and are not blank, with one placeholder each, and   *)
(* binds their coerced values in that order; the order of the form and     *)
(* fields that name no column do not matter.  It is executed exactly when  *)
(* the lookup succeeded, no value is invalid and some column was selected. *)
(***************************************************************************)
C9_InsertText ==
    <<"INSERT INTO ">> \o Quoted(req.schema) \o <<".">> \o Quoted(req.table) \o <<" (">>
        \o Join(", ", [n \in 1..Len(InsertedColumns(req.form)) |->
                          Quoted(ReqColumns[InsertedColumns(req.form)[n]][1])])
        \o <<") VALUES (">>
        \o Join(", ", [n \in 1..Len(InsertedColumns(req.form)) |-> <<"?">>])
        \o <<")">>

C9_InsertSelectsColumns ==
    req.kind = "insert_row" =>
        /\ HasStatement <=>
               (LoopReached /\ InvalidPositions = {} /\ InsertedColumns(req.form) # <<>>)
        /\ HasStatement =>
               /\ Statement.op = "insert"
               /\ Statement.sql = C9_InsertText
               /\ Statement.params = InsertedValues(req.form)

C9_Witness ==
    /\ req.kind = "insert_row"
    /\ HasStatement
    /\ Len(req.form) = 2
    /\ Len(Statement.params) = 2
    /\ req.form[1].key = ReqColumns[2][1]
    /\ req.form[2].key = ReqColumns[1][1]

(***************************************************************************)
(* C10: the UPDATE that update_row executes sets, in the order of the      *)
(* form, exactly the fields that name a column other than the key; a blank *)
(* field is bound as NULL and any other as its coerced value; the WHERE    *)
(* clause is the quoted key column with one placeholder, and pk_value is   *)
(* the last parameter.  It is executed exactly when the lookups succeeded, *)
(* no value is invalid and some field was selected.                        *)
(***************************************************************************)
C10_UpdateText ==
    <<"UPDATE ">> \o Quoted(req.schema) \o <<".">> \o Quoted(req.table) \o <<" ", "SET ">>
        \o Join(", ", [n \in 1..Len(UpdatedFields(req.form)) |->
                          Quoted(req.form[UpdatedFields(req.form)[n]].key) \o <<" = ?">>])
        \o <<" ", "WHERE ">> \o Quoted(ReqKeys[1]) \o <<" = ?">>

C10_UpdateSetsFields ==
    req.kind = "update_row" =>
        /\ HasStatement <=>
               (LoopReached /\ InvalidPositions = {} /\ UpdatedFields(req.form) # <<>>)
        /\ HasStatement =>
               /\ Statement.op = "update"
               /\ Statement.sql = C10_UpdateText
               /\ Statement.params
                      = Append(UpdatedValues(req.form), PyStr(req.pk_value))

C10_Witness ==
    /\ req.kind = "update_row"
    /\ HasStatement
    /\ Len(req.form) = 2
    /\ req.form[1].key = ReqKeys[1]
    /\ Blank(req.form[2].value)
    /\ Statement.params = <<PyNone, PyStr(req.pk_value)>>
====
